---- MODULE Spec2Model ----
(***************************************************************************)
(* A model of the stacks backend (pkg/interfaces/utils.go): the stack      *)
(* label filter, the four resource joiners, status aggregation and the     *)
(* spec-conversion pipeline behind CreateStack / UpdateStack.              *)
(*                                                                         *)
(* The backend object holds no mutable fields of its own: every operation  *)
(* is a synchronous call.  A call is modelled as one action that draws the *)
(* arguments and the answers of the collaborators (swarmBackend,           *)
(* stackStore, the convert and substitution packages), runs the whole      *)
(* handler and leaves the calls it made and what it returned in the state; *)
(* Return then hands control back to the caller.                           *)
(***************************************************************************)
EXTENDS Integers, Sequences, FiniteSets, TLC

VARIABLES pc, op, args, env, calls, ret

vars == <<pc, op, args, env, calls, ret>>

----------------------------------------------------------------------------
(* Bounds of the model *)

MaxIDs == 2
MaxRes == 2
MaxTasks == 3
MaxServices == 2
MaxReplicas == 2
MaxNodes == 2
MaxStacks == 2
MaxServiceConfigs == 2

----------------------------------------------------------------------------
(* Values *)

\* interfaces.StackLabel: the well-known label key (its text is not set in
\* this file; only its identity matters).
StackLabel == "StackLabel"

\* Stack IDs the callers may pass; "" is the empty string.
IDs == {"", "a", "b"}

\* The nil error and the wrapping of errors: an error is the sequence of the
\* message fragments fmt.Errorf("<fragment>: %s", err) chains together,
\* outermost first.
NoErr == <<>>
Errorf(msg, err) == <<msg>> \o err
IsErr(err) == err # NoErr

\* A Go map: a function.  A nil map reads like an empty one.
EmptyMap == <<>>

SeqsUpTo(S, n) == UNION {[1..k -> S] : k \in 0..n}

----------------------------------------------------------------------------
(* filters.Args, as far as this code builds them: a set of <<field, value>> *)
(* arguments.  A label value is the text "<key>=<value>" or the bare key.   *)

NewArgs == {}
Arg(field, value) == <<field, value>>
Sprintf_eq(key, value) == <<key, "=", value>>
BareKey(key) == <<key>>

ArgsLen(f) == Cardinality({a[1] : a \in f})
ArgsGet(f, field) == {a[2] : a \in {b \in f : b[1] = field}}

StackLabelFilter_noEmptyCase(stackID) ==
    {Arg("label", Sprintf_eq(StackLabel, stackID))}

StackLabelFilter(stackID) ==
    IF stackID = ""
    THEN NewArgs
    ELSE {Arg("label", Sprintf_eq(StackLabel, stackID))}

stackLabelFilters_emptyIsNone(stackIDs) ==
    IF Len(stackIDs) = 0 THEN NewArgs
    ELSE IF Len(stackIDs) = 1 THEN StackLabelFilter(stackIDs[1])
    ELSE {Arg("label", BareKey(StackLabel))}

stackLabelFilters(stackIDs) ==
    IF Len(stackIDs) = 1
    THEN StackLabelFilter(stackIDs[1])
    ELSE {Arg("label", BareKey(StackLabel))}

----------------------------------------------------------------------------
(* The resource joiners.  The orchestrator's answer to a list query is     *)
(* [ok |-> FALSE] (the query failed) or [ok |-> TRUE, items |-> <<...>>].   *)

Labelled(r) == StackLabel \in DOMAIN r.Labels

\* make(map) followed by `for _, stackID := range stackIDs { idsmap[stackID] = [] }`
initIdsmap(stackIDs) ==
    [id \in {stackIDs[i] : i \in 1..Len(stackIDs)} |-> <<>>]

\* The grouping loop shared, text for text, by the four joiners; missingMsg
\* is the joiner's own "no stack label" message.
RECURSIVE joinLoop_appendAll(_, _, _, _)
joinLoop_appendAll(idsmap, items, i, missingMsg) ==
    IF i > Len(items) THEN [map |-> idsmap, err |-> NoErr]
    ELSE IF ~Labelled(items[i])
    THEN [map |-> idsmap, err |-> <<missingMsg>>]
    ELSE LET stackID == items[i].Labels[StackLabel] IN
         joinLoop_appendAll(
             [id \in DOMAIN idsmap \cup {stackID} |->
                 IF id = stackID
                 THEN (IF id \in DOMAIN idsmap THEN idsmap[id] ELSE <<>>)
                      \o <<items[i]>>
                 ELSE idsmap[id]],
             items, i + 1, missingMsg)

RECURSIVE joinLoop_prepend(_, _, _, _)
joinLoop_prepend(idsmap, items, i, missingMsg) ==
    IF i > Len(items) THEN [map |-> idsmap, err |-> NoErr]
    ELSE IF ~Labelled(items[i])
    THEN [map |-> idsmap, err |-> <<missingMsg>>]
    ELSE LET stackID == items[i].Labels[StackLabel] IN
         IF stackID \in DOMAIN idsmap
         THEN joinLoop_prepend(
                  [idsmap EXCEPT ![stackID] = <<items[i]>> \o @],
                  items, i + 1, missingMsg)
         ELSE joinLoop_prepend(idsmap, items, i + 1, missingMsg)

RECURSIVE joinLoop(_, _, _, _)
joinLoop(idsmap, items, i, missingMsg) ==
    IF i > Len(items) THEN [map |-> idsmap, err |-> NoErr]
    ELSE IF ~Labelled(items[i])
    THEN [map |-> idsmap, err |-> <<missingMsg>>]
    ELSE LET stackID == items[i].Labels[StackLabel] IN
         IF stackID \in DOMAIN idsmap
         THEN joinLoop([idsmap EXCEPT ![stackID] = Append(@, items[i])],
                       items, i + 1, missingMsg)
         ELSE joinLoop(idsmap, items, i + 1, missingMsg)

\* One query to swarmBackend, as the joiners issue it.
Query(fn, stackIDs) == [fn |-> fn, Filters |-> stackLabelFilters(stackIDs)]

getSwarmTasks(stackIDs, resp) ==
    IF ~resp.ok
    THEN [map |-> EmptyMap,
          err |-> Errorf("unable to get tasks for stacks", <<"GetTasks">>)]
    ELSE joinLoop(initIdsmap(stackIDs), resp.items, 1,
                  "internal error: found task with no stack label")

getSwarmServices(stackIDs, resp) ==
    IF ~resp.ok
    THEN [map |-> EmptyMap,
          err |-> Errorf("unable to list services", <<"GetServices">>)]
    ELSE joinLoop(initIdsmap(stackIDs), resp.items, 1,
                  "internal error: found service with no stack label")

getSwarmConfigs(stackIDs, resp) ==
    IF ~resp.ok
    THEN [map |-> EmptyMap,
          err |-> Errorf("unable to list configs", <<"GetConfigs">>)]
    ELSE joinLoop(initIdsmap(stackIDs), resp.items, 1,
                  "internal error: found service with no stack label")

getSwarmSecrets(stackIDs, resp) ==
    IF ~resp.ok
    THEN [map |-> EmptyMap,
          err |-> Errorf("unable to list secrets", <<"GetSecrets">>)]
    ELSE joinLoop(initIdsmap(stackIDs), resp.items, 1,
                  "internal error: found secret with no stack label")

----------------------------------------------------------------------------
(* Status of one stack: populateStackStatus.                               *)
(*                                                                         *)
(* A stack is [ID, StatusNil, ServicesStatus, Resources].  StatusNil tells *)
(* that Status.ServicesStatus is the nil map, as in the zero Status of the *)
(* types.Stack literal CreateStack stores; assigning an entry of a nil map *)
(* panics.  A service's Mode is [Replicated |-> TRUE, Replicas |-> n] or,  *)
(* with Mode.Replicated == nil, [Replicated |-> FALSE, Replicas |-> 0].    *)

NoPanic == "none"
NilMapPanic == "assignment to entry in nil map"

TaskStateRunning == "running"

\* name -> {ID, Kind}; a later resource of the same name overwrites.
RECURSIVE inventory(_, _, _, _)
inventory(res, items, i, kind) ==
    IF i > Len(items) THEN res
    ELSE inventory(
             [n \in DOMAIN res \cup {items[i].Name} |->
                 IF n = items[i].Name
                 THEN [ID |-> items[i].ID, Kind |-> kind]
                 ELSE res[n]],
             items, i + 1, kind)

stackServices(services) == inventory(EmptyMap, services, 1, "service")
stackSecrets(secrets) == inventory(EmptyMap, secrets, 1, "secret")
stackConfigs(configs) == inventory(EmptyMap, configs, 1, "config")

desiredTasks_alwaysNodes(service, numNodes) == numNodes

\* utils.go:465-472
desiredTasks(service, numNodes) ==
    IF service.Mode.Replicated
    THEN service.Mode.Replicas
    ELSE numNodes

\* utils.go:475-480.  The loop increments `curentTasks`, which is not the
\* `currentTasks` declared before it and recorded after it: the recorded
\* counter is never incremented.
RECURSIVE countTasks(_, _, _, _)
countTasks(counters, service, tasks, i) ==
    IF i > Len(tasks) THEN counters
    ELSE IF tasks[i].ServiceID = service.ID /\ tasks[i].State = TaskStateRunning
    THEN countTasks([counters EXCEPT !.curentTasks = @ + 1], service, tasks, i + 1)
    ELSE countTasks(counters, service, tasks, i + 1)

currentTasks(service, tasks) ==
    countTasks([currentTasks |-> 0, curentTasks |-> 0], service, tasks, 1).currentTasks

\* the `for _, service := range services` loop of populateStackStatus
RECURSIVE statusLoop(_, _, _, _, _)
statusLoop(stack, tasks, services, i, numNodes) ==
    IF i > Len(services) THEN [stack |-> stack, err |-> NoErr, panic |-> NoPanic]
    ELSE IF stack.StatusNil
    THEN [stack |-> stack, err |-> NoErr, panic |-> NilMapPanic]
    ELSE LET service == services[i]
             status == [CurrentTasks |-> currentTasks(service, tasks),
                        DesiredTasks |-> desiredTasks(service, numNodes)]
         IN statusLoop(
                [stack EXCEPT !.ServicesStatus =
                    [n \in DOMAIN @ \cup {service.Name} |->
                        IF n = service.Name THEN status ELSE @[n]]],
                tasks, services, i + 1, numNodes)

populateStackStatus(stack, tasks, services, secrets, configs, numNodes) ==
    statusLoop(
        [stack EXCEPT !.Resources = [Services |-> stackServices(services),
                                     Secrets |-> stackSecrets(secrets),
                                     Configs |-> stackConfigs(configs)]],
        tasks, services, 1, numNodes)

----------------------------------------------------------------------------
(* Status aggregation: getNodeCount and getStackStatuses.  e holds the     *)
(* orchestrator's answers: e.tasks, e.services, e.secrets, e.configs as    *)
(* for the joiners, e.nodes = [ok, count].                                 *)

\* The error a collaborator returns: named after the call that failed.
ExtErr(fn) == <<fn>>

\* The zero types.Stack, as make([]types.Stack, n) fills a slice with.
ZeroStack ==
    [ID |-> "", StatusNil |-> TRUE, ServicesStatus |-> EmptyMap,
     Resources |-> [Services |-> EmptyMap, Secrets |-> EmptyMap,
                    Configs |-> EmptyMap]]

getNodeCount(resp) ==
    IF ~resp.ok
    THEN [count |-> 0, err |-> Errorf("unable to list nodes", ExtErr("GetNodes"))]
    ELSE [count |-> resp.count, err |-> NoErr]

StatusResult(stacks, err, panic, made) ==
    [stacks |-> stacks, err |-> err, panic |-> panic, calls |-> made]

\* utils.go:421-452: newStacks starts as make([]types.Stack, len(stacks))
\* and every populated stack is appended to it.
RECURSIVE aggregateLoop(_, _, _, _, _, _)
aggregateLoop(newStacks, stacks, i, joined, nodeCount, made) ==
    IF i > Len(stacks) THEN StatusResult(newStacks, NoErr, NoPanic, made)
    ELSE LET stack == stacks[i] IN
         IF stack.ID \notin DOMAIN joined.tasks
         THEN StatusResult(<<>>, NoErr,
                  "internal error: task map does not contain expected ID", made)
         ELSE IF stack.ID \notin DOMAIN joined.services
         THEN StatusResult(<<>>, NoErr,
                  "internal error: services map does not contain expected ID", made)
         ELSE IF stack.ID \notin DOMAIN joined.secrets
         THEN StatusResult(<<>>, NoErr,
                  "internal error: services map does not contain expected ID", made)
         ELSE IF stack.ID \notin DOMAIN joined.configs
         THEN StatusResult(<<>>, NoErr,
                  "internal error: configs map does not contain expected ID", made)
         ELSE LET r == populateStackStatus(stack, joined.tasks[stack.ID],
                           joined.services[stack.ID], joined.secrets[stack.ID],
                           joined.configs[stack.ID], nodeCount)
              IN IF r.panic # NoPanic
                 THEN StatusResult(<<>>, NoErr, r.panic, made)
                 ELSE IF IsErr(r.err)
                 THEN StatusResult(<<>>,
                          Errorf("unable to populate stack status for stack", r.err),
                          NoPanic, made)
                 ELSE aggregateLoop(Append(newStacks, r.stack), stacks, i + 1,
                                    joined, nodeCount, made)

getStackStatuses(stacks, e) ==
    IF Len(stacks) = 0 THEN StatusResult(<<>>, NoErr, NoPanic, <<>>)
    ELSE LET stackIDs == [i \in 1..Len(stacks) |-> stacks[i].ID]
             made == <<Query("GetTasks", stackIDs), Query("GetServices", stackIDs),
                       Query("GetSecrets", stackIDs), Query("GetConfigs", stackIDs),
                       [fn |-> "GetNodes", Filters |-> NewArgs]>>
             tasks == getSwarmTasks(stackIDs, e.tasks)
             services == getSwarmServices(stackIDs, e.services)
             secrets == getSwarmSecrets(stackIDs, e.secrets)
             configs == getSwarmConfigs(stackIDs, e.configs)
             nodeCount == getNodeCount(e.nodes)
         IN IF IsErr(tasks.err)
            THEN StatusResult(<<>>, Errorf("unable to get swarm tasks", tasks.err),
                              NoPanic, SubSeq(made, 1, 1))
            ELSE IF IsErr(services.err)
            THEN StatusResult(<<>>, Errorf("unable to get swarm services", services.err),
                              NoPanic, SubSeq(made, 1, 2))
            ELSE IF IsErr(secrets.err)
            THEN StatusResult(<<>>, Errorf("unable to get swarm secrets", secrets.err),
                              NoPanic, SubSeq(made, 1, 3))
            ELSE IF IsErr(configs.err)
            THEN StatusResult(<<>>, Errorf("unable to get swarm secrets", configs.err),
                              NoPanic, SubSeq(made, 1, 4))
            ELSE IF IsErr(nodeCount.err)
            THEN StatusResult(<<>>, Errorf("unable to get nodes", nodeCount.err),
                              NoPanic, made)
            ELSE aggregateLoop([i \in 1..Len(stacks) |-> ZeroStack], stacks, 1,
                               [tasks |-> tasks.map, services |-> services.map,
                                secrets |-> secrets.map, configs |-> configs.map],
                               nodeCount.count, made)

----------------------------------------------------------------------------
(* Spec conversion and the store-backed operations.  e holds the outcome   *)
(* of each stage implemented outside this file (substitution.DoSubstitution,*)
(* convert.Services / Configs / Secrets / Networks), [ok, out], and        *)
(* e.store, the store's answer.                                            *)

OrchestratorSwarm == "swarm"

\* The zero interfaces.SwarmStackSpec.
EmptySwarmStackSpec ==
    [Annotations |-> [Name |-> "", Labels |-> EmptyMap],
     Services |-> <<>>, Configs |-> <<>>, Secrets |-> <<>>, Networks |-> <<>>]

\* A service config's Networks is the set of the network names it declares.
RECURSIVE declaredNetworksLoop(_, _, _)
declaredNetworksLoop(serviceNetworks, serviceConfigs, i) ==
    IF i > Len(serviceConfigs) THEN serviceNetworks
    ELSE IF Cardinality(serviceConfigs[i].Networks) = 0
    THEN declaredNetworksLoop(serviceNetworks \cup {"default"}, serviceConfigs, i + 1)
    ELSE declaredNetworksLoop(serviceNetworks \cup serviceConfigs[i].Networks,
                              serviceConfigs, i + 1)

getServicesDeclaredNetworks_noDefault(serviceConfigs) ==
    UNION {serviceConfigs[i].Networks : i \in 1..Len(serviceConfigs)}

getServicesDeclaredNetworks(serviceConfigs) ==
    declaredNetworksLoop({}, serviceConfigs, 1)

ConvertResult(spec, err, made) == [spec |-> spec, err |-> err, calls |-> made]

convertToSwarmStackSpec_swallowSecrets(spec, e) ==
    LET made == <<[fn |-> "DoSubstitution"], [fn |-> "convert.Services"],
                  [fn |-> "convert.Configs"], [fn |-> "convert.Secrets"],
                  [fn |-> "convert.Networks",
                   serviceNetworks |-> getServicesDeclaredNetworks(e.subst.out.Services)]>>
    IN IF ~e.subst.ok
       THEN ConvertResult(EmptySwarmStackSpec, ExtErr("DoSubstitution"), SubSeq(made, 1, 1))
       ELSE IF ~e.services.ok
       THEN ConvertResult(EmptySwarmStackSpec,
                Errorf("failed to convert services ", ExtErr("convert.Services")),
                SubSeq(made, 1, 2))
       ELSE IF ~e.configs.ok
       THEN ConvertResult(EmptySwarmStackSpec,
                Errorf("failed to convert configs", ExtErr("convert.Configs")),
                SubSeq(made, 1, 3))
       ELSE ConvertResult(
                [Annotations |-> [Name |-> spec.Metadata.Name,
                                  Labels |-> spec.Metadata.Labels],
                 Services |-> e.services.out, Configs |-> e.configs.out,
                 Secrets |-> e.secrets.out, Networks |-> e.networks.out],
                NoErr, made)

convertToSwarmStackSpec(spec, e) ==
    LET made == <<[fn |-> "DoSubstitution"], [fn |-> "convert.Services"],
                  [fn |-> "convert.Configs"], [fn |-> "convert.Secrets"],
                  [fn |-> "convert.Networks",
                   serviceNetworks |-> getServicesDeclaredNetworks(e.subst.out.Services)]>>
    IN IF ~e.subst.ok
       THEN ConvertResult(EmptySwarmStackSpec, ExtErr("DoSubstitution"), SubSeq(made, 1, 1))
       ELSE IF ~e.services.ok
       THEN ConvertResult(EmptySwarmStackSpec,
                Errorf("failed to convert services ", ExtErr("convert.Services")),
                SubSeq(made, 1, 2))
       ELSE IF ~e.configs.ok
       THEN ConvertResult(EmptySwarmStackSpec,
                Errorf("failed to convert configs", ExtErr("convert.Configs")),
                SubSeq(made, 1, 3))
       ELSE IF ~e.secrets.ok
       THEN ConvertResult(EmptySwarmStackSpec,
                Errorf("failed to convert secrets", ExtErr("convert.Secrets")),
                SubSeq(made, 1, 4))
       ELSE ConvertResult(
                [Annotations |-> [Name |-> spec.Metadata.Name,
                                  Labels |-> spec.Metadata.Labels],
                 Services |-> e.services.out, Configs |-> e.configs.out,
                 Secrets |-> e.secrets.out, Networks |-> e.networks.out],
                NoErr, made)

CreateResult(id, err, made) == [ID |-> id, err |-> err, calls |-> made]

AddStackCall(create, swarmSpec) ==
    [fn |-> "AddStack",
     stack |-> [Spec |-> create.Spec, Orchestrator |-> OrchestratorSwarm],
     swarmStack |-> [Spec |-> swarmSpec]]

CreateStack_anyOrchestrator(create, e) ==
    LET conv == convertToSwarmStackSpec(create.Spec, e) IN
    IF IsErr(conv.err)
    THEN CreateResult("", Errorf("unable to translate swarm spec", conv.err), conv.calls)
    ELSE IF ~e.store.ok
    THEN CreateResult("", Errorf("unable to store stack", ExtErr("AddStack")),
                      Append(conv.calls, AddStackCall(create, conv.spec)))
    ELSE CreateResult(e.store.id, NoErr,
                      Append(conv.calls, AddStackCall(create, conv.spec)))

CreateStack(create, e) ==
    IF create.Orchestrator # OrchestratorSwarm
    THEN CreateResult("", <<"invalid orchestrator type">>, <<>>)
    ELSE LET conv == convertToSwarmStackSpec(create.Spec, e) IN
         IF IsErr(conv.err)
         THEN CreateResult("", Errorf("unable to translate swarm spec", conv.err),
                           conv.calls)
         ELSE IF ~e.store.ok
         THEN CreateResult("", Errorf("unable to store stack", ExtErr("AddStack")),
                           Append(conv.calls, AddStackCall(create, conv.spec)))
         ELSE CreateResult(e.store.id, NoErr,
                           Append(conv.calls, AddStackCall(create, conv.spec)))

UpdateStack(id, spec, version, e) ==
    LET conv == convertToSwarmStackSpec(spec, e) IN
    IF IsErr(conv.err)
    THEN [err |-> Errorf("unable to translate swarm spec", conv.err),
          calls |-> conv.calls]
    ELSE [err |-> IF e.store.ok THEN NoErr ELSE ExtErr("UpdateStack"),
          calls |-> Append(conv.calls,
                        [fn |-> "UpdateStack", id |-> id, spec |-> spec,
                         swarmSpec |-> conv.spec, version |-> version])]

----------------------------------------------------------------------------
(* Inputs of the joiner specification *)

\* A resource's label map: no stack label, or the stack label with a value.
LabelMaps == {EmptyMap} \cup {[k \in {StackLabel} |-> v] : v \in IDs}

\* Raw resources, told apart by their orchestrator ID.
RawResources == [ID : {"r1", "r2"}, Labels : LabelMaps]

StackIDLists == SeqsUpTo(IDs, MaxIDs)

ListResponses ==
    {[ok |-> FALSE, items |-> <<>>]}
    \cup {[ok |-> TRUE, items |-> s] : s \in SeqsUpTo(RawResources, MaxRes)}

Joiners == {"getSwarmTasks", "getSwarmServices", "getSwarmSecrets", "getSwarmConfigs"}

----------------------------------------------------------------------------
(* Inputs of the populateStackStatus specification *)

ServiceIDs == {"s1", "s2"}
ServiceName(id) == IF id = "s1" THEN "web" ELSE "db"

Modes ==
    {[Replicated |-> TRUE, Replicas |-> n] : n \in 0..MaxReplicas}
    \cup {[Replicated |-> FALSE, Replicas |-> 0]}

LabelledWith(id) == [k \in {StackLabel} |-> id]

PopTasks ==
    {[ID |-> "t", Labels |-> LabelledWith("a"), ServiceID |-> sid, State |-> st] :
        sid \in ServiceIDs, st \in {"running", "failed", "pending"}}

PopServices ==
    {[ID |-> sid, Labels |-> LabelledWith("a"), Name |-> ServiceName(sid), Mode |-> m] :
        sid \in ServiceIDs, m \in Modes}

\* The orchestrator lists a service once: no two entries share an ID.
DistinctIDs(s) == \A i, j \in 1..Len(s) : i # j => s[i].ID # s[j].ID

PopServiceLists == {s \in SeqsUpTo(PopServices, MaxServices) : DistinctIDs(s)}

Secret1 == [ID |-> "x1", Labels |-> LabelledWith("a"), Name |-> "key"]
Config1 == [ID |-> "c1", Labels |-> LabelledWith("a"), Name |-> "conf"]

NoResources == [Services |-> EmptyMap, Secrets |-> EmptyMap, Configs |-> EmptyMap]

\* A stack as the store hands it over, before its status is computed.
StoredStack(id, statusNil) ==
    [ID |-> id, StatusNil |-> statusNil, ServicesStatus |-> EmptyMap,
     Resources |-> NoResources]

----------------------------------------------------------------------------
(* Inputs of getStackStatuses *)

StatusStacks == {StoredStack(id, statusNil) : id \in IDs, statusNil \in BOOLEAN}

Failed == [ok |-> FALSE, items |-> <<>>]
Listed(items) == [ok |-> TRUE, items |-> items]

TaskA == [ID |-> "t1", Labels |-> LabelledWith("a"), ServiceID |-> "s1",
          State |-> "running"]
ServiceA == [ID |-> "s1", Labels |-> LabelledWith("a"), Name |-> "web",
             Mode |-> [Replicated |-> TRUE, Replicas |-> 1]]
Unlabelled(r) == [r EXCEPT !.Labels = EmptyMap]

\* What a list query may answer: a failure, nothing, a resource of stack
\* "a", or a resource without the stack label.
Answers(r) == {Failed, Listed(<<>>), Listed(<<r>>), Listed(<<Unlabelled(r)>>)}

NodeAnswers ==
    {[ok |-> FALSE, count |-> 0]} \cup {[ok |-> TRUE, count |-> n] : n \in 0..MaxNodes}

StatusEnvs ==
    [tasks : Answers(TaskA), services : Answers(ServiceA),
     secrets : Answers(Secret1), configs : Answers(Config1), nodes : NodeAnswers]

----------------------------------------------------------------------------
(* Inputs of conversion, CreateStack and UpdateStack *)

ServiceConfigs ==
    {[Name |-> "web", Networks |-> n] : n \in {{}, {"front"}, {"front", "back"}}}

StackSpecs ==
    [Metadata : [Name : {"demo"}, Labels : {EmptyMap, [team |-> "x"]}],
     Services : SeqsUpTo(ServiceConfigs, MaxServiceConfigs)]

\* A stage's outcome: it fails, or it yields its converted resources.
StageOutcomes(out) == {[ok |-> FALSE, out |-> <<>>], [ok |-> TRUE, out |-> out]}

\* The specs of this model hold no variable references: substitution, when
\* it succeeds, has nothing to replace.
ConvertEnvs(spec) ==
    [subst : {[ok |-> FALSE, out |-> spec], [ok |-> TRUE, out |-> spec]},
     services : StageOutcomes(<<"demo_web">>),
     configs : StageOutcomes(<<"demo_conf">>),
     secrets : StageOutcomes(<<"demo_key">>),
     networks : StageOutcomes(<<"demo_default">>),
     store : {[ok |-> FALSE, id |-> ""], [ok |-> TRUE, id |-> "a"]}]

----------------------------------------------------------------------------
(* Inputs of the helper functions *)

\* Service configs by the networks they declare; "default" may be declared
\* by name like any other network.
NetworkNames == {"front", "back", "default"}

NetServiceConfigs == [Name : {"web", "db"}, Networks : SUBSET NetworkNames]

NetServiceConfigLists == SeqsUpTo(NetServiceConfigs, MaxServiceConfigs)

\* Stack IDs handed to StackLabelFilter: those of IDs, the one of the test,
\* and one that holds "=" itself.
FilterIDs == IDs \cup {"stackid", "a=b"}

----------------------------------------------------------------------------
(* Actions *)

Init ==
    /\ pc = "idle"
    /\ op = "none"
    /\ args = <<>>
    /\ env = <<>>
    /\ calls = <<>>
    /\ ret = <<>>

Idle == pc = "idle"

Call(name, a, e, c, r) ==
    /\ pc' = "done"
    /\ op' = name
    /\ args' = a
    /\ env' = e
    /\ calls' = c
    /\ ret' = r

GetSwarmTasks ==
    /\ Idle
    /\ \E stackIDs \in StackIDLists, resp \in ListResponses :
        Call("getSwarmTasks", [stackIDs |-> stackIDs], [resp |-> resp],
             <<Query("GetTasks", stackIDs)>>, getSwarmTasks(stackIDs, resp))

GetSwarmServices ==
    /\ Idle
    /\ \E stackIDs \in StackIDLists, resp \in ListResponses :
        Call("getSwarmServices", [stackIDs |-> stackIDs], [resp |-> resp],
             <<Query("GetServices", stackIDs)>>, getSwarmServices(stackIDs, resp))

GetSwarmSecrets ==
    /\ Idle
    /\ \E stackIDs \in StackIDLists, resp \in ListResponses :
        Call("getSwarmSecrets", [stackIDs |-> stackIDs], [resp |-> resp],
             <<Query("GetSecrets", stackIDs)>>, getSwarmSecrets(stackIDs, resp))

GetSwarmConfigs ==
    /\ Idle
    /\ \E stackIDs \in StackIDLists, resp \in ListResponses :
        Call("getSwarmConfigs", [stackIDs |-> stackIDs], [resp |-> resp],
             <<Query("GetConfigs", stackIDs)>>, getSwarmConfigs(stackIDs, resp))

Return ==
    /\ pc = "done"
    /\ pc' = "idle"
    /\ op' = "none"
    /\ args' = <<>>
    /\ env' = <<>>
    /\ calls' = <<>>
    /\ ret' = <<>>

NextJoin ==
    \/ GetSwarmTasks
    \/ GetSwarmServices
    \/ GetSwarmSecrets
    \/ GetSwarmConfigs
    \/ Return

SpecJoin == Init /\ [][NextJoin]_vars

PopulateStackStatus ==
    /\ Idle
    /\ \E statusNil \in BOOLEAN,
       tasks \in SeqsUpTo(PopTasks, MaxTasks),
       services \in PopServiceLists,
       numNodes \in 0..MaxNodes :
        Call("populateStackStatus",
             [stack |-> StoredStack("a", statusNil), tasks |-> tasks,
              services |-> services, secrets |-> <<Secret1>>,
              configs |-> <<Config1>>, numNodes |-> numNodes],
             <<>>, <<>>,
             populateStackStatus(StoredStack("a", statusNil), tasks, services,
                                 <<Secret1>>, <<Config1>>, numNodes))

NextPopulate ==
    \/ PopulateStackStatus
    \/ Return

SpecPopulate == Init /\ [][NextPopulate]_vars

GetStackStatuses ==
    /\ Idle
    /\ \E stacks \in SeqsUpTo(StatusStacks, MaxStacks), e \in StatusEnvs :
        LET r == getStackStatuses(stacks, e) IN
        Call("getStackStatuses", [stacks |-> stacks], e, r.calls, r)

ConvertToSwarmStackSpec ==
    /\ Idle
    /\ \E spec \in StackSpecs : \E e \in ConvertEnvs(spec) :
        LET r == convertToSwarmStackSpec(spec, e) IN
        Call("convertToSwarmStackSpec", [spec |-> spec], e, r.calls, r)

CreateStackCall ==
    /\ Idle
    /\ \E spec \in StackSpecs, orchestrator \in {OrchestratorSwarm, "kubernetes"} :
       \E e \in ConvertEnvs(spec) :
        LET create == [Spec |-> spec, Orchestrator |-> orchestrator]
            r == CreateStack(create, e)
        IN Call("CreateStack", [create |-> create], e, r.calls, r)

UpdateStackCall ==
    /\ Idle
    /\ \E spec \in StackSpecs : \E e \in ConvertEnvs(spec) :
        LET r == UpdateStack("a", spec, 1, e) IN
        Call("UpdateStack", [id |-> "a", spec |-> spec, version |-> 1], e, r.calls, r)

Next ==
    \/ GetStackStatuses
    \/ ConvertToSwarmStackSpec
    \/ CreateStackCall
    \/ UpdateStackCall
    \/ Return

Spec == Init /\ [][Next]_vars

GetServicesDeclaredNetworks ==
    /\ Idle
    /\ \E serviceConfigs \in NetServiceConfigLists :
        Call("getServicesDeclaredNetworks", [serviceConfigs |-> serviceConfigs],
             <<>>, <<>>, [networks |-> getServicesDeclaredNetworks(serviceConfigs)])

StackLabelFilterCall ==
    /\ Idle
    /\ \E stackID \in FilterIDs :
        Call("StackLabelFilter", [stackID |-> stackID], <<>>, <<>>,
             [filter |-> StackLabelFilter(stackID)])

NextHelpers ==
    \/ GetServicesDeclaredNetworks
    \/ StackLabelFilterCall
    \/ Return

SpecHelpers == Init /\ [][NextHelpers]_vars

----------------------------------------------------------------------------
(* What the orchestrator does with a label argument: "<key>=<value>" asks  *)
(* for that value under the key, a bare "<key>" for the key's presence; a  *)
(* filter without arguments constrains nothing.                            *)

MatchesArg(a, labels) ==
    IF a[1] # "label" THEN TRUE
    ELSE IF Len(a[2]) = 1 THEN a[2][1] \in DOMAIN labels
    ELSE a[2][1] \in DOMAIN labels /\ labels[a[2][1]] = a[2][3]

Matches(f, labels) == \A a \in f : MatchesArg(a, labels)

MatchesNothing(f) == \A labels \in LabelMaps : ~Matches(f, labels)
MatchesEverything(f) == \A labels \in LabelMaps : Matches(f, labels)

EqualityFilter(id) == {<<"label", <<StackLabel, "=", id>>>>}
ExistenceFilter == {<<"label", <<StackLabel>>>>}

JoinerDone == pc = "done" /\ op \in Joiners
SentFilter == calls[1].Filters
RequestedIDs == {args.stackIDs[i] : i \in 1..Len(args.stackIDs)}
StackIDOf(r) == r.Labels[StackLabel]

----------------------------------------------------------------------------
(* Claims about the label filter and the joiners (SpecJoin)                *)

\* C1, as stated: the filter a joiner sends matches nothing for an empty ID
\* list, is the equality filter on the ID for a one-element list, and the
\* existence filter on the stack label for two or more IDs.
C1_AsStated ==
    JoinerDone =>
        /\ Len(args.stackIDs) = 0 => MatchesNothing(SentFilter)
        /\ Len(args.stackIDs) = 1 => SentFilter = EqualityFilter(args.stackIDs[1])
        /\ Len(args.stackIDs) >= 2 => SentFilter = ExistenceFilter

\* C1, amended: the filter a joiner sends is the existence filter on the
\* stack label for an empty ID list and for two or more IDs; for exactly one
\* ID it is the equality filter "label = <StackLabel>=<id>" when the ID is
\* not the empty string, and a filter without arguments (which constrains
\* nothing) when the ID is the empty string.
C1_FilterByLength ==
    JoinerDone =>
        /\ Len(args.stackIDs) # 1 =>
              /\ SentFilter = ExistenceFilter
              /\ ~MatchesNothing(SentFilter)
        /\ (Len(args.stackIDs) = 1 /\ args.stackIDs[1] # "") =>
              SentFilter = EqualityFilter(args.stackIDs[1])
        /\ (Len(args.stackIDs) = 1 /\ args.stackIDs[1] = "") =>
              /\ ArgsLen(SentFilter) = 0
              /\ MatchesEverything(SentFilter)

\* C1 witness: a joiner was called with no stack ID at all and sent the
\* existence filter.
C1_Witness ==
    /\ JoinerDone
    /\ Len(args.stackIDs) = 0
    /\ SentFilter = ExistenceFilter

\* C2: whenever the orchestrator answered a joiner's query, the keys of the
\* mapping the joiner returns are exactly the requested stack IDs, whatever
\* the labels of the raw resources.
C2_KeySetIsRequested ==
    (JoinerDone /\ env.resp.ok) => DOMAIN ret.map = RequestedIDs

\* C2 witness: two stacks were requested, a returned resource belongs to a
\* stack that was not requested, and the joiner succeeded.
C2_Witness ==
    /\ JoinerDone
    /\ env.resp.ok
    /\ Cardinality(RequestedIDs) = 2
    /\ \E i \in 1..Len(env.resp.items) :
          /\ Labelled(env.resp.items[i])
          /\ StackIDOf(env.resp.items[i]) \notin RequestedIDs
    /\ ret.err = NoErr

\* C3, as stated: when a raw resource lacks the stack label the joiner
\* returns an error and hands back no resource in the returned mapping.
C3_NoPartialMap ==
    (JoinerDone /\ env.resp.ok
        /\ \E i \in 1..Len(env.resp.items) : ~Labelled(env.resp.items[i]))
    => /\ IsErr(ret.err)
       /\ \A id \in DOMAIN ret.map : ret.map[id] = <<>>

\* C4: when every raw resource carries the stack label the joiner returns no
\* error, and the list under each requested ID is the subsequence of the raw
\* resources labelled with that ID, in the orchestrator's order; resources
\* of other stacks are in no list.
C4_ListsAreLabelledSubsequences ==
    (JoinerDone /\ env.resp.ok
        /\ \A i \in 1..Len(env.resp.items) : Labelled(env.resp.items[i]))
    => /\ ret.err = NoErr
       /\ \A id \in RequestedIDs :
             ret.map[id] =
                 SelectSeq(env.resp.items, LAMBDA r : StackIDOf(r) = id)
       /\ \A id \in DOMAIN ret.map : \A k \in 1..Len(ret.map[id]) :
             StackIDOf(ret.map[id][k]) \in RequestedIDs

\* C4 witness: two distinct resources of one requested stack came back and
\* both are in its list, in the order returned.
C4_Witness ==
    /\ JoinerDone
    /\ env.resp.ok
    /\ Len(env.resp.items) = 2
    /\ env.resp.items[1].ID = "r2"
    /\ env.resp.items[2].ID = "r1"
    /\ \E id \in RequestedIDs : ret.map[id] = env.resp.items

----------------------------------------------------------------------------
(* Claims about populateStackStatus (SpecPopulate)                         *)

PopulateDone == pc = "done" /\ op = "populateStackStatus"

RunningTasksOf(service, tasks) ==
    Cardinality({i \in 1..Len(tasks) :
        tasks[i].ServiceID = service.ID /\ tasks[i].State = "running"})

C7_CurrentTasks ==
    (PopulateDone /\ ret.panic = NoPanic) =>
        \A i \in 1..Len(args.services) :
            LET service == args.services[i] IN
            /\ service.Name \in DOMAIN ret.stack.ServicesStatus
            /\ ret.stack.ServicesStatus[service.Name].CurrentTasks
                  = RunningTasksOf(service, args.tasks)

----------------------------------------------------------------------------
(* Claims about the backend operations (Spec)                              *)

StatusDone == pc = "done" /\ op = "getStackStatuses"
ConvertDone == pc = "done" /\ op = "convertToSwarmStackSpec"
StoreOpDone == pc = "done" /\ op \in {"CreateStack", "UpdateStack"}

\* C5, as stated: when every query succeeds getStackStatuses returns one
\* stack per input stack, with the same IDs in the same order.
C5_OneStackPerInput ==
    (StatusDone /\ ret.err = NoErr /\ ret.panic = NoPanic) =>
        /\ Len(ret.stacks) = Len(args.stacks)
        /\ \A i \in 1..Len(args.stacks) :
              i <= Len(ret.stacks) /\ ret.stacks[i].ID = args.stacks[i].ID

\* The stage or resource kind a collaborator call belongs to.
KindOf(fn) ==
    CASE fn \in {"GetTasks"} -> "tasks"
      [] fn \in {"GetServices", "convert.Services"} -> "services"
      [] fn \in {"GetSecrets", "convert.Secrets"} -> "secrets"
      [] fn \in {"GetConfigs", "convert.Configs"} -> "configs"
      [] fn \in {"GetNodes"} -> "nodes"
      [] fn \in {"DoSubstitution"} -> "substitution"
      [] fn \in {"convert.Networks"} -> "networks"
      [] OTHER -> "store"

\* The stage or resource kind a message of this code speaks of.
KindsNamed(fragment) ==
    CASE fragment \in {"unable to get swarm tasks", "unable to get tasks for stacks",
                       "internal error: found task with no stack label"} -> {"tasks"}
      [] fragment \in {"unable to get swarm services", "unable to list services",
                       "internal error: found service with no stack label",
                       "failed to convert services "} -> {"services"}
      [] fragment \in {"unable to get swarm secrets", "unable to list secrets",
                       "internal error: found secret with no stack label",
                       "failed to convert secrets"} -> {"secrets"}
      [] fragment \in {"unable to list configs", "failed to convert configs"} -> {"configs"}
      [] fragment \in {"unable to get nodes", "unable to list nodes"} -> {"nodes"}
      [] OTHER -> {}

KindsInError(err) == UNION {KindsNamed(err[k]) : k \in 1..Len(err)}

\* C8, as stated: an error of conversion or of status aggregation carries
\* context naming the stage or resource kind that failed, which is the one
\* of the last collaborator call made.
C8_ErrorNamesFailedStage ==
    ((StatusDone \/ ConvertDone) /\ IsErr(ret.err)) =>
        KindOf(calls[Len(calls)].fn) \in KindsInError(ret.err)

ListFails(resp) ==
    ~resp.ok \/ \E i \in 1..Len(resp.items) : ~Labelled(resp.items[i])

\* Whether the collaborator call c failed, or the join of its answer did.
CallFailed(c) ==
    CASE c.fn = "GetTasks" -> ListFails(env.tasks)
      [] c.fn = "GetServices" -> ListFails(env.services)
      [] c.fn = "GetSecrets" -> ListFails(env.secrets)
      [] c.fn = "GetConfigs" -> ListFails(env.configs)
      [] c.fn = "GetNodes" -> ~env.nodes.ok
      [] c.fn = "DoSubstitution" -> ~env.subst.ok
      [] c.fn = "convert.Services" -> ~env.services.ok
      [] c.fn = "convert.Configs" -> ~env.configs.ok
      [] c.fn = "convert.Secrets" -> ~env.secrets.ok
      [] c.fn = "convert.Networks" -> ~env.networks.ok
      [] OTHER -> ~env.store.ok

\* C9: whenever a call an operation made failed (for a list query: the
\* query or the join of its answer), other than network conversion, the
\* operation returns an error, and a failed conversion returns the empty
\* spec; so an operation that reports success has seen no failure but that
\* of network conversion.
C9_OnlyNetworkErrorSwallowed ==
    (pc = "done" /\ op \in {"getStackStatuses", "convertToSwarmStackSpec",
                            "CreateStack", "UpdateStack"}) =>
        /\ (\E k \in 1..Len(calls) :
               CallFailed(calls[k]) /\ calls[k].fn # "convert.Networks")
           => IsErr(ret.err)
        /\ (op = "convertToSwarmStackSpec" /\ IsErr(ret.err))
           => ret.spec = EmptySwarmStackSpec

\* C9 witness: network conversion failed and CreateStack went on to store
\* the stack and reported success.
C9_Witness ==
    /\ pc = "done"
    /\ op = "CreateStack"
    /\ ~env.networks.ok
    /\ calls[Len(calls)].fn = "AddStack"
    /\ ret.err = NoErr

StoreCalled == \E k \in 1..Len(calls) : calls[k].fn \in {"AddStack", "UpdateStack"}

\* C10: CreateStack for an orchestrator other than swarm returns the
\* invalid-orchestrator error having made no call at all, and CreateStack or
\* UpdateStack returning a conversion error has not called the store.
C10_NoStoreOnConversionError ==
    StoreOpDone =>
        /\ (op = "CreateStack" /\ args.create.Orchestrator # OrchestratorSwarm)
           => /\ ret.err = <<"invalid orchestrator type">>
              /\ calls = <<>>
        /\ (IsErr(ret.err) /\ ret.err[1] = "unable to translate swarm spec")
           => ~StoreCalled

\* C10 witness: CreateStack was asked for another orchestrator and failed.
C10_Witness ==
    /\ pc = "done"
    /\ op = "CreateStack"
    /\ args.create.Orchestrator = "kubernetes"
    /\ IsErr(ret.err)

----------------------------------------------------------------------------
(* Claims about the helper functions (SpecHelpers)                         *)

NetworksDone == pc = "done" /\ op = "getServicesDeclaredNetworks"

DeclaredBy(serviceConfigs) ==
    UNION {serviceConfigs[i].Networks : i \in 1..Len(serviceConfigs)}

SomeDeclaresNone(serviceConfigs) ==
    \E i \in 1..Len(serviceConfigs) : serviceConfigs[i].Networks = {}

\* C11: getServicesDeclaredNetworks returns the union of the network names
\* the services declare, together with "default" if and only if some
\* service declares no network; apart from a "default" declared by name,
\* "default" is in the result exactly when some service declares none.
C11_DeclaredNetworks ==
    NetworksDone =>
        /\ ret.networks =
              DeclaredBy(args.serviceConfigs)
              \cup (IF SomeDeclaresNone(args.serviceConfigs)
                    THEN {"default"} ELSE {})
        /\ "default" \notin DeclaredBy(args.serviceConfigs) =>
              ("default" \in ret.networks
                  <=> SomeDeclaresNone(args.serviceConfigs))

\* C11 witness: one service declares a network, another declares none, and
\* the result holds that network and "default".
C11_Witness ==
    /\ NetworksDone
    /\ Len(args.serviceConfigs) = 2
    /\ args.serviceConfigs[1].Networks = {"front"}
    /\ args.serviceConfigs[2].Networks = {}
    /\ ret.networks = {"front", "default"}

FilterDone == pc = "done" /\ op = "StackLabelFilter"

\* C12: StackLabelFilter returns a filter without arguments for the empty
\* ID, and for any other ID a filter with exactly one argument, under
\* "label", whose single value is "<StackLabel>=<id>".
C12_StackLabelFilter ==
    FilterDone =>
        /\ args.stackID = "" => ArgsLen(ret.filter) = 0
        /\ args.stackID # "" =>
              /\ ArgsLen(ret.filter) = 1
              /\ Cardinality(ret.filter) = 1
              /\ ArgsGet(ret.filter, "label") = {<<StackLabel, "=", args.stackID>>}

\* C12 witness: the filter for the ID "stackid" holds one label value.
C12_Witness ==
    /\ FilterDone
    /\ args.stackID = "stackid"
    /\ ArgsGet(ret.filter, "label") = {<<StackLabel, "=", "stackid">>}

----------------------------------------------------------------------------
(* Claims about panics in getStackStatuses (Spec)                          *)

MissingKeyPanics ==
    {"internal error: task map does not contain expected ID",
     "internal error: services map does not contain expected ID",
     "internal error: configs map does not contain expected ID"}

\* C13, as stated: a status request ends in a result or in an error, never
\* in a panic.
C13_NeverPanics ==
    StatusDone => ret.panic = NoPanic

\* The part of C13 about the joiners' contract: whatever the stacks
\* (duplicate or empty IDs included) and the orchestrator's answers, no
\* status request ends in one of the missing-key panics.
C13_MissingKeyPanicsUnreachable ==
    StatusDone => ret.panic \notin MissingKeyPanics

\* A status request that went past the four joiners and the node count with
\* duplicate stack IDs and returned stacks.
C13_PastTheJoiners ==
    /\ StatusDone
    /\ Len(args.stacks) = 2
    /\ args.stacks[1].ID = args.stacks[2].ID
    /\ Len(calls) = 5
    /\ ret.err = NoErr
    /\ ret.panic = NoPanic

====
